---- MODULE Spec2Model ----
(***************************************************************************)
(* BladeOfGrass path-planning prototype: the geometry editor               *)
(* (CanvasManager, src/js/canvas.js), the controls and playback controller *)
(* (ControlsManager, src/unnamed/part_001, the class that starts at line   *)
(* 425) and the session import (App, src/js/app.js).                       *)
(*                                                                         *)
(* The program is single threaded: every handler runs to completion.  A    *)
(* handler is one action; the methods it calls are operators from a        *)
(* program state (a record of all the fields) to a program state,          *)
(* composed in the order of the calls in the source.                       *)
(***************************************************************************)
EXTENDS Integers, Sequences, FiniteSets, Bags, TLC

(***************************************************************************)
(* Bounds of the model.                                                    *)
(***************************************************************************)
\* most vertices in the boundary array or in the obstacle buffer
MaxPts == 3
\* most vertices appended to a boundary that is drawn over an earlier one
MaxRedraw == 2
\* most obstacles in the two registries together
MaxObs == 2
\* most animate timeouts pending at once
MaxTimers == 2
\* most generatePlan continuations pending at once
MaxPlans == 1
\* last millisecond of the clock behind Date.now()
MaxClock == 1
\* most bits of the numerators and denominators of scale and pan
MaxBits == 24
\* most calls of handleWheel in a run of any length
MaxWheels == 1
\* most zoomIn or zoomOut calls before a run of SpecPan starts
MaxZoomRun == 9
\* most handler calls in a run of SpecPan
MaxViewSteps == 2
\* largest speed, in either direction, that is given to updateSpeed
MaxSpeed == 12

(***************************************************************************)
(* Inputs.                                                                 *)
(***************************************************************************)
Pt(px, py) == [x |-> px, y |-> py]

\* world positions of the clicks (the results of getMousePosition): where the
\* operator puts the next vertex of a drawing that has n vertices already
ClickPts(n) ==
    CASE n = 0 -> {Pt(0, 0)}
      [] n = 1 -> {Pt(100, 0)}
      [] n = 2 -> {Pt(100, 100)}
      [] OTHER -> {Pt(0, 100)}

\* values of the speed slider
SpeedValues == {5, 10}

\* values given to updateSpeed by a caller: any integer
Speeds == (-MaxSpeed)..MaxSpeed

Modes == {"ready", "boundary", "obstacle", "obstacle-dynamic"}

\* null of the source, and a present value
Null == <<>>
Some(v) == <<v>>

(***************************************************************************)
(* Numbers.  progress is ((index + 1) / path.length) * 100: an exact       *)
(* fraction in lowest terms, so that equal numbers are equal values.       *)
(***************************************************************************)
RECURSIVE Gcd(_, _)
Gcd(a, b) == IF b = 0 THEN a ELSE Gcd(b, a % b)

Abs(a) == IF a < 0 THEN -a ELSE a

Frac(n, d) == LET g == Gcd(n, d) IN [n |-> n \div g, d |-> d \div g]

Zero == Frac(0, 1)

Hundred == Frac(100, 1)

\* Number.prototype.toFixed(1) of a non-negative fraction, in tenths
ToFixed1(f) == (20 * f.n + f.d) \div (2 * f.d)

\* Math.atan2(dy, dx): the angle is named by the direction of the ray,
\* atan2(0, 0) being the angle 0 of the positive x axis
Atan2(dy, dx) ==
    IF dy = 0 /\ dx = 0 THEN [dy |-> 0, dx |-> 1]
    ELSE LET g == Gcd(Abs(dy), Abs(dx)) IN [dy |-> dy \div g, dx |-> dx \div g]

\* arithmetic of fractions in lowest terms with positive denominators
Lcm(a, b) == (a \div Gcd(a, b)) * b

FMul(f, g) ==
    LET g1 == Gcd(Abs(f.n), g.d)
        g2 == Gcd(Abs(g.n), f.d)
    IN Frac((f.n \div g1) * (g.n \div g2), (f.d \div g2) * (g.d \div g1))

\* f / g for g > 0
FDiv(f, g) == FMul(f, [n |-> g.d, d |-> g.n])

FAdd(f, g) ==
    LET l == Lcm(f.d, g.d) IN Frac(f.n * (l \div f.d) + g.n * (l \div g.d), l)

FSub(f, g) == FAdd(f, [n |-> -g.n, d |-> g.d])

FLe(f, g) == LET l == Lcm(f.d, g.d) IN f.n * (l \div f.d) <= g.n * (l \div g.d)

\* Math.min and Math.max of two numbers
FMin(f, g) == IF FLe(f, g) THEN f ELSE g

FMax(f, g) == IF FLe(f, g) THEN g ELSE f

\* the canvas coordinates of the pointer in the wheel events
WheelPts == {Pt(10, 5)}

\* the canvas coordinates of the pointer in the other mouse events
MousePts == {Pt(3, 1)}

\* further places of the pointer: a canvas corner and a point off the centre
FocalPts == {Pt(0, 0), Pt(4, 3)}

\* the places a drag takes the pointer to
DragPts == {Pt(0, 0), Pt(8, 3)}

\* canvas.width and canvas.height, the size of the container
CanvasSize == [width |-> 20, height |-> 10]

MinOf(S) == CHOOSE m \in S : \A n \in S : m <= n

MaxOf(S) == CHOOSE m \in S : \A n \in S : m >= n

(***************************************************************************)
(* The program state.  The fields keep the names of the source:            *)
(* CanvasManager (boundary .. lastPanPoint), ControlsManager               *)
(* (isRunning .. progress), the page (disabled: the disabled attribute of  *)
(* the buttons; status: the robot status panel; rendered: what the last    *)
(* render() drew; stats: what the last updateStats() computed the numbers  *)
(* of the page from), the event loop (timers: the pending animate timeouts,   *)
(* each with the path its closure captured; plans: the pending             *)
(* generatePlan continuations, each with the path it computed; now: the    *)
(* clock) and last: the handler that ran last, how the animate call it     *)
(* made ended, the alert it raised, the state it started in and its        *)
(* argument, with placed: the points clicked since the current drawing     *)
(* mode was entered, old: the boundary as it was when boundary mode was    *)
(* entered, issued: the ids of all obstacles the registry has held, and    *)
(* wheels: the number of wheel events so far, left: the number of handler  *)
(* calls the run has left (-1: any number).                                *)
(***************************************************************************)
VARIABLES boundary, obstacles, dynamicObstacles, plannedPath, robotPosition,
          mode, currentObstacle, highlightedObstacle,
          isRunning, isPaused, currentSpeed, currentIndex, progress,
          scale, panX, panY, isPanning, lastPanPoint,
          disabled, status, rendered, stats, timers, plans, now, last

canvasVars == <<boundary, obstacles, dynamicObstacles, plannedPath, robotPosition,
                mode, currentObstacle, highlightedObstacle>>

\* the view: zoom and pan
viewVars == <<scale, panX, panY, isPanning, lastPanPoint>>

simVars == <<isRunning, isPaused, currentSpeed, currentIndex, progress>>

\* the playback state: running, paused, index, progress
simState == <<isRunning, isPaused, currentIndex, progress>>

pageVars == <<disabled, status, rendered, stats>>

loopVars == <<timers, plans, now>>

vars == <<canvasVars, viewVars, simVars, pageVars, loopVars, last>>

\* the program state at the start of a handler
Cur ==
    [boundary |-> boundary, obstacles |-> obstacles,
     dynamicObstacles |-> dynamicObstacles, plannedPath |-> plannedPath,
     robotPosition |-> robotPosition, mode |-> mode,
     currentObstacle |-> currentObstacle,
     highlightedObstacle |-> highlightedObstacle,
     scale |-> scale, panX |-> panX, panY |-> panY,
     isPanning |-> isPanning, lastPanPoint |-> lastPanPoint,
     isRunning |-> isRunning, isPaused |-> isPaused,
     currentSpeed |-> currentSpeed, currentIndex |-> currentIndex,
     progress |-> progress, disabled |-> disabled, status |-> status,
     rendered |-> rendered, stats |-> stats,
     timers |-> timers, plans |-> plans, now |-> now,
     tick |-> "none", alert |-> "none", delay |-> Null]

\* the fraction is written with numbers of at most MaxBits bits
Fits(f) == Abs(f.n) < 2 ^ MaxBits /\ f.d < 2 ^ MaxBits

\* the caps of the model on the collections the program lets grow
WithinBounds(s) ==
    /\ Len(s.boundary) <= MaxPts + MaxRedraw
    /\ Len(s.currentObstacle) <= MaxPts
    /\ Len(s.obstacles) + Len(s.dynamicObstacles) <= MaxObs
    /\ BagCardinality(s.timers) <= MaxTimers
    /\ Len(s.plans) <= MaxPlans
    /\ s.now <= MaxClock
    /\ Fits(s.scale) /\ Fits(s.panX) /\ Fits(s.panY)

\* the polygon that a click in the current mode extends
Drawn == IF mode = "boundary" THEN boundary ELSE currentObstacle

\* what last keeps of the state a handler started in
Pre ==
    [isRunning |-> isRunning, isPaused |-> isPaused, currentIndex |-> currentIndex,
     mode |-> mode, drawn |-> Len(Drawn),
     obs |-> Len(obstacles) + Len(dynamicObstacles),
     scale |-> scale, panX |-> panX, panY |-> panY]

\* the points clicked in the current drawing mode once the handler op with
\* argument arg has ended in program state s
Placed(op, arg, s) ==
    IF s.mode = "ready" \/ s.mode # mode THEN <<>>
    ELSE IF op = "click" THEN Append(last.placed, arg[1])
    ELSE last.placed

\* the boundary that was there when boundary mode was entered
Old(s) ==
    IF s.mode # "boundary" THEN Null
    ELSE IF mode # "boundary" THEN Some(boundary)
    ELSE last.old

\* the ids of the obstacles in both lists of program state s
ObstacleIds(s) ==
    {s.obstacles[i].id : i \in DOMAIN s.obstacles}
        \cup {s.dynamicObstacles[i].id : i \in DOMAIN s.dynamicObstacles}

\* the number of wheel events so far
Wheels(op) == last.wheels + IF op = "wheel" THEN 1 ELSE 0

\* the number of handler calls the run has left after this one
Left == IF last.left < 0 THEN last.left ELSE last.left - 1

\* the handler named op, called with argument arg, ends in program state s
CommitArg(op, arg, s) ==
    /\ WithinBounds(s)
    /\ Len(Placed(op, arg, s)) <= MaxPts
    /\ last.left < 0 => Wheels(op) <= MaxWheels
    /\ last.left # 0
    /\ boundary' = s.boundary
    /\ obstacles' = s.obstacles
    /\ dynamicObstacles' = s.dynamicObstacles
    /\ plannedPath' = s.plannedPath
    /\ robotPosition' = s.robotPosition
    /\ mode' = s.mode
    /\ currentObstacle' = s.currentObstacle
    /\ highlightedObstacle' = s.highlightedObstacle
    /\ scale' = s.scale
    /\ panX' = s.panX
    /\ panY' = s.panY
    /\ isPanning' = s.isPanning
    /\ lastPanPoint' = s.lastPanPoint
    /\ isRunning' = s.isRunning
    /\ isPaused' = s.isPaused
    /\ currentSpeed' = s.currentSpeed
    /\ currentIndex' = s.currentIndex
    /\ progress' = s.progress
    /\ disabled' = s.disabled
    /\ status' = s.status
    /\ rendered' = s.rendered
    /\ stats' = s.stats
    /\ timers' = s.timers
    /\ plans' = s.plans
    /\ now' = s.now
    /\ last' = [op |-> op, tick |-> s.tick, alert |-> s.alert,
                delay |-> s.delay, pre |-> Pre,
                arg |-> arg, placed |-> Placed(op, arg, s), old |-> Old(s),
                issued |-> last.issued \cup ObstacleIds(s),
                wheels |-> Wheels(op), left |-> Left]

\* a handler without argument
Commit(op, s) == CommitArg(op, Null, s)

(***************************************************************************)
(* The page.                                                               *)
(***************************************************************************)
\* what render() draws (canvas.js 395-470)
Visible(s) ==
    [boundary |-> s.boundary, obstacles |-> s.obstacles,
     dynamicObstacles |-> s.dynamicObstacles,
     currentObstacle |-> s.currentObstacle, mode |-> s.mode,
     plannedPath |-> s.plannedPath, robotPosition |-> s.robotPosition,
     highlightedObstacle |-> s.highlightedObstacle,
     scale |-> s.scale, panX |-> s.panX, panY |-> s.panY]

Render(s) == [s EXCEPT !.rendered = Visible(s)]

\* CanvasManager.canvasToMeters: (pixels / 50).toFixed(1), in tenths
canvasToMeters(pixels) == ToFixed1(Frac(pixels, 50))

\* the polygons of the obstacles of both lists, static first
ObstaclePolygons(s) ==
    [i \in 1..(Len(s.obstacles) + Len(s.dynamicObstacles)) |->
        (s.obstacles \o s.dynamicObstacles)[i].points]

\* ControlsManager.updateStats: the numbers of the page are computed anew
\* from the boundary, the obstacles and the path as they are now
updateStats(s) ==
    [s EXCEPT !.stats = [boundary |-> s.boundary, obstacles |-> s.obstacles,
                         dynamicObstacles |-> s.dynamicObstacles,
                         plannedPath |-> s.plannedPath]]

\* ControlsManager.updateButtonStates: the disabled attribute of each button
updateButtonStates(s) ==
    LET hasBoundary == Len(s.boundary) >= 3
        hasPath == Len(s.plannedPath) > 0
        isDrawing == s.mode # "ready"
        isSimulationActive == s.isRunning
    IN [s EXCEPT !.disabled =
          [boundaryBtn |-> isSimulationActive \/ (isDrawing /\ s.mode # "boundary"),
           planBtn |-> ~hasBoundary \/ isDrawing \/ isSimulationActive,
           addObstacleBtn |-> isSimulationActive \/ (isDrawing /\ s.mode # "obstacle"),
           addDynamicObstacleBtn |->
               isSimulationActive \/ (isDrawing /\ s.mode # "obstacle-dynamic"),
           runBtn |-> ~hasPath \/ s.isRunning \/ isDrawing,
           pauseBtn |-> ~s.isRunning \/ s.isPaused \/ isDrawing,
           resumeBtn |-> ~s.isRunning \/ ~s.isPaused \/ isDrawing,
           stopBtn |-> ~s.isRunning \/ isDrawing]]

\* ControlsManager.updateRobotStatus: an argument that is Null leaves its
\* field of the panel as it was
updateRobotStatus(s, state, position, prog, speed) ==
    [s EXCEPT !.status =
       [state |-> IF state # Null THEN state[1] ELSE @.state,
        position |-> IF position # Null
                     THEN Some(Pt(canvasToMeters(position[1].x),
                                  canvasToMeters(position[1].y)))
                     ELSE @.position,
        progress |-> IF prog # Null THEN ToFixed1(prog[1]) ELSE @.progress,
        speed |-> IF speed # Null THEN speed[1] ELSE @.speed]]

(***************************************************************************)
(* CanvasManager.                                                          *)
(***************************************************************************)
\* setMode that keeps the obstacle buffer
setModeKeepBuffer(s, newMode) == [s EXCEPT !.mode = newMode]

setMode(s, newMode) ==
    LET s1 == IF newMode = "ready"
              THEN [s EXCEPT !.boundary = IF Len(@) > 0 /\ Len(@) < 3 THEN <<>> ELSE @,
                             !.currentObstacle = <<>>]
              ELSE s
    IN [s1 EXCEPT !.mode = newMode, !.currentObstacle = <<>>]

addBoundaryPoint(s, pos) ==
    LET s1 == updateStats(Render([s EXCEPT !.boundary = Append(@, pos)]))
    IN IF Len(s1.boundary) >= 3 THEN updateButtonStates(s1) ELSE s1

finishBoundary(s) ==
    IF Len(s.boundary) >= 3
    THEN updateStats(updateButtonStates(Render(setMode(s, "ready"))))
    ELSE IF Len(s.boundary) > 0
         THEN updateStats(updateButtonStates(
                  Render(setMode([s EXCEPT !.boundary = <<>>], "ready"))))
         ELSE s

\* addObstaclePoint that puts the point in front of the buffer
addObstaclePointInFront(s, pos) ==
    Render([s EXCEPT !.currentObstacle = <<pos>> \o @])

addObstaclePoint(s, pos) == Render([s EXCEPT !.currentObstacle = Append(@, pos)])

\* the id `obstacle_${Date.now()}` or `dynamic_${Date.now()}`
ObstacleId(prefix, t) == <<prefix, t>>

\* finishObstacle that commits a buffer of any length above 0
finishObstacleAnyLength(s) ==
    IF Len(s.currentObstacle) > 0
    THEN LET s1 == [s EXCEPT !.obstacles =
                       Append(@, [id |-> ObstacleId("obstacle", s.now),
                                  points |-> s.currentObstacle,
                                  type |-> "static"]),
                             !.currentObstacle = <<>>]
         IN updateStats(updateButtonStates(Render(setMode(s1, "ready"))))
    ELSE s

finishObstacle(s) ==
    IF Len(s.currentObstacle) >= 3
    THEN LET s1 == [s EXCEPT !.obstacles =
                       Append(@, [id |-> ObstacleId("obstacle", s.now),
                                  points |-> s.currentObstacle,
                                  type |-> "static"]),
                             !.currentObstacle = <<>>]
         IN updateStats(updateButtonStates(Render(setMode(s1, "ready"))))
    ELSE IF Len(s.currentObstacle) > 0
         THEN updateButtonStates(
                  Render(setMode([s EXCEPT !.currentObstacle = <<>>], "ready")))
         ELSE s

addDynamicObstaclePoint(s, pos) ==
    Render([s EXCEPT !.currentObstacle = Append(@, pos)])

finishDynamicObstacle(s) ==
    IF Len(s.currentObstacle) >= 3
    THEN LET s1 == [s EXCEPT !.dynamicObstacles =
                       Append(@, [id |-> ObstacleId("dynamic", s.now),
                                  points |-> s.currentObstacle,
                                  type |-> "dynamic"]),
                             !.currentObstacle = <<>>]
         IN updateStats(updateButtonStates(Render(setMode(s1, "ready"))))
    ELSE updateButtonStates(
             Render(setMode([s EXCEPT !.currentObstacle = <<>>], "ready")))

handleClick(s, pos) ==
    CASE s.mode = "boundary" -> addBoundaryPoint(s, pos)
      [] s.mode = "obstacle" -> addObstaclePoint(s, pos)
      [] s.mode = "obstacle-dynamic" -> addDynamicObstaclePoint(s, pos)
      [] OTHER -> s

handleRightClick(s) ==
    IF s.mode = "boundary" /\ Len(s.boundary) >= 3 THEN finishBoundary(s)
    ELSE IF s.mode = "obstacle" /\ Len(s.currentObstacle) >= 3 THEN finishObstacle(s)
    ELSE IF s.mode = "obstacle-dynamic" /\ Len(s.currentObstacle) >= 3
         THEN finishDynamicObstacle(s)
    ELSE s

\* removeObstacle that filters the static list alone
canvasRemoveObstacleStaticOnly(s, obstacleId) ==
    LET Other(obs) == obs.id # obstacleId
    IN Render([s EXCEPT !.obstacles = SelectSeq(@, Other)])

canvasRemoveObstacle(s, obstacleId) ==
    LET Other(obs) == obs.id # obstacleId
    IN Render([s EXCEPT !.obstacles = SelectSeq(@, Other),
                        !.dynamicObstacles = SelectSeq(@, Other)])

setHighlightedObstacle(s, obstacleId) ==
    Render([s EXCEPT !.highlightedObstacle = obstacleId])

clearHighlightedObstacle(s) == Render([s EXCEPT !.highlightedObstacle = Null])

canvasReset(s) ==
    Render(setMode([s EXCEPT !.boundary = <<>>, !.obstacles = <<>>,
                             !.dynamicObstacles = <<>>, !.plannedPath = <<>>,
                             !.robotPosition = Null, !.currentObstacle = <<>>,
                             !.panX = Zero, !.panY = Zero],
                   "ready"))

\* the limits of the zoom (canvas.js 24-25)
minScale == Frac(1, 5)

maxScale == Frac(5, 1)

\* the new pan that keeps the world point under the canvas point f in place
\* when the scale goes from s.scale to newScale:
\* f - ((f - pan) / scale) * newScale
PanAbout(f, pan, oldScale, newScale) ==
    FSub(Frac(f, 1), FMul(FDiv(FSub(Frac(f, 1), pan), oldScale), newScale))

ZoomAbout(s, f, newScale) ==
    [s EXCEPT !.scale = newScale,
              !.panX = PanAbout(f.x, s.panX, s.scale, newScale),
              !.panY = PanAbout(f.y, s.panY, s.scale, newScale)]

\* the world point under the canvas point c (getMousePosition)
getMousePosition(s, c) ==
    [x |-> FDiv(FSub(Frac(c.x, 1), s.panX), s.scale),
     y |-> FDiv(FSub(Frac(c.y, 1), s.panY), s.scale)]

\* zoomIn that keeps the pan
zoomInKeepPan(s) == Render([s EXCEPT !.scale = FMin(maxScale, FMul(s.scale, Frac(6, 5)))])

\* handleWheel that does not clamp the new scale
handleWheelUnclamped(s, mouse, deltaY) ==
    LET zoomFactor == IF deltaY > 0 THEN Frac(9, 10) ELSE Frac(11, 10)
        newScale == FMul(s.scale, zoomFactor)
    IN IF newScale # s.scale THEN Render(ZoomAbout(s, mouse, newScale)) ELSE s

handleWheel(s, mouse, deltaY) ==
    LET zoomFactor == IF deltaY > 0 THEN Frac(9, 10) ELSE Frac(11, 10)
        newScale == FMax(minScale, FMin(maxScale, FMul(s.scale, zoomFactor)))
    IN IF newScale # s.scale THEN Render(ZoomAbout(s, mouse, newScale)) ELSE s

\* the centre of the canvas
Centre == Pt(CanvasSize.width \div 2, CanvasSize.height \div 2)

zoomIn(s) == Render(ZoomAbout(s, Centre, FMin(maxScale, FMul(s.scale, Frac(6, 5)))))

zoomOut(s) == Render(ZoomAbout(s, Centre, FMax(minScale, FDiv(s.scale, Frac(6, 5)))))

resetZoom(s) == Render([s EXCEPT !.scale = Frac(1, 1), !.panX = Zero, !.panY = Zero])

handleMouseDown(s, pos, button, ctrlKey) ==
    IF button = 1 \/ (button = 0 /\ ctrlKey)
    THEN [s EXCEPT !.isPanning = TRUE, !.lastPanPoint = pos]
    ELSE s

\* handleMouseMove that divides the pointer delta by the scale
handleMouseMoveScaled(s, pos) ==
    IF s.isPanning
    THEN Render([s EXCEPT !.panX = FAdd(@, FDiv(Frac(pos.x - s.lastPanPoint.x, 1), s.scale)),
                          !.panY = FAdd(@, FDiv(Frac(pos.y - s.lastPanPoint.y, 1), s.scale)),
                          !.lastPanPoint = pos])
    ELSE s

\* while a polygon is being drawn the move redraws the canvas with the
\* preview line to the pointer
handleMouseMove(s, pos) ==
    IF s.isPanning
    THEN Render([s EXCEPT !.panX = FAdd(@, Frac(pos.x - s.lastPanPoint.x, 1)),
                          !.panY = FAdd(@, Frac(pos.y - s.lastPanPoint.y, 1)),
                          !.lastPanPoint = pos])
    ELSE IF \/ s.mode = "boundary" /\ Len(s.boundary) > 0
            \/ s.mode \in {"obstacle", "obstacle-dynamic"} /\ Len(s.currentObstacle) > 0
         THEN Render(s)
         ELSE s

handleMouseUp(s) == IF s.isPanning THEN [s EXCEPT !.isPanning = FALSE] ELSE s

handleMouseLeave(s) == IF s.isPanning THEN [s EXCEPT !.isPanning = FALSE] ELSE s

setPlannedPath(s, path) == Render([s EXCEPT !.plannedPath = path])

\* updateRobotPosition that also drops the obstacle in progress
updateRobotPositionDropBuffer(s, position) ==
    Render([s EXCEPT !.robotPosition = Some(position), !.currentObstacle = <<>>])

updateRobotPosition(s, position) == Render([s EXCEPT !.robotPosition = Some(position)])

(***************************************************************************)
(* Geometry.  Areas in square metres are numbers with one decimal          *)
(* (toFixed(1)), kept in tenths; 50 pixels are 1 metre.                    *)
(***************************************************************************)
\* the sum of x_i * y_j - x_j * y_i over the edges i -> j, i = from .. to,
\* j the vertex after i
RECURSIVE ShoelaceSum(_, _, _)
ShoelaceSum(points, from, to) ==
    IF from > to THEN 0
    ELSE LET i == from
             j == (i % Len(points)) + 1
         IN points[i].x * points[j].y - points[j].x * points[i].y
                + ShoelaceSum(points, from + 1, to)

\* calculatePolygonArea that leaves out the edge from the last vertex back
\* to the first
calculatePolygonAreaNoWrap(points) ==
    IF Len(points) < 3 THEN 0
    ELSE ToFixed1(Frac(Abs(ShoelaceSum(points, 1, Len(points) - 1)), 2 * 50 * 50))

\* CanvasManager.calculatePolygonArea, in tenths of a square metre
calculatePolygonArea(points) ==
    IF Len(points) < 3 THEN 0
    ELSE ToFixed1(Frac(Abs(ShoelaceSum(points, 1, Len(points))), 2 * 50 * 50))

\* the test of one edge in isPointInPolygon, vertex i against vertex j:
\* (yi > y) # (yj > y) and x < (xj - xi) * (y - yi) / (yj - yi) + xi
Crosses(point, pi, pj) ==
    /\ (pi.y > point.y) # (pj.y > point.y)
    /\ LET num == (pj.x - pi.x) * (point.y - pi.y)
           den == pj.y - pi.y
       IN IF den > 0 THEN (point.x - pi.x) * den < num
          ELSE (point.x - pi.x) * den > num

\* the loop of isPointInPolygon from vertex i on, j the vertex before i
RECURSIVE InsideFrom(_, _, _, _, _)
InsideFrom(point, polygon, i, j, inside) ==
    IF i > Len(polygon) THEN inside
    ELSE InsideFrom(point, polygon, i + 1, i,
                    IF Crosses(point, polygon[i], polygon[j]) THEN ~inside ELSE inside)

\* isPointInPolygon whose loop leaves out the edge from the last vertex to
\* the first
isPointInPolygonOpen(point, polygon) ==
    IF Len(polygon) < 3 THEN FALSE
    ELSE InsideFrom(point, polygon, 2, 1, FALSE)

\* ControlsManager.isPointInPolygon
isPointInPolygon(point, polygon) ==
    IF Len(polygon) < 3 THEN FALSE
    ELSE InsideFrom(point, polygon, 1, Len(polygon), FALSE)

\* the vertices of all the polygons
Vertices(polygons) ==
    UNION {{polygons[k][i] : i \in DOMAIN polygons[k]} : k \in DOMAIN polygons}

\* the side of a grid cell of calculateUnionArea, in pixels
cellSize == 2

\* Math.ceil(n / cellSize) for n >= 0
CeilCells(n) == (n + cellSize - 1) \div cellSize

\* the grid over the bounding box of the polygons: its corner, and the
\* indices of its cells
Grid(polygons) ==
    LET V == Vertices(polygons)
        minX == MinOf({v.x : v \in V})
        maxX == MaxOf({v.x : v \in V})
        minY == MinOf({v.y : v \in V})
        maxY == MaxOf({v.y : v \in V})
    IN [minX |-> minX, minY |-> minY,
        cells |-> (0..(CeilCells(maxX - minX) - 1)) \X (0..(CeilCells(maxY - minY) - 1))]

\* the centre of cell c of grid g: min + (i + 0.5) * cellSize
CellCentre(g, c) ==
    Pt(g.minX + c[1] * cellSize + cellSize \div 2,
       g.minY + c[2] * cellSize + cellSize \div 2)

\* the cells of grid g whose centre is inside some polygon
CoveredOn(g, polygons) ==
    {c \in g.cells : \E k \in DOMAIN polygons : isPointInPolygon(CellCentre(g, c), polygons[k])}

\* a count that adds up the cells each polygon covers
coveredCellsAdded(polygons) ==
    LET g == Grid(polygons)
        RECURSIVE Sum(_)
        Sum(k) == IF k = 0 THEN 0
                  ELSE Cardinality(CoveredOn(g, <<polygons[k]>>)) + Sum(k - 1)
    IN IF Vertices(polygons) = {} THEN 0 ELSE Sum(Len(polygons))

\* coveredCells at the end of the loops of calculateUnionArea
coveredCells(polygons) ==
    IF Vertices(polygons) = {} THEN 0
    ELSE Cardinality(CoveredOn(Grid(polygons), polygons))

\* calculateUnionArea that samples the grid also for one polygon
calculateUnionAreaAlwaysGrid(polygons) ==
    IF Len(polygons) = 0 THEN Zero
    ELSE Frac(coveredCells(polygons) * cellSize * cellSize, 50 * 50)

\* ControlsManager.calculateUnionArea, in square metres
calculateUnionArea(polygons) ==
    IF Len(polygons) = 0 THEN Zero
    ELSE IF Len(polygons) = 1 THEN Frac(calculatePolygonArea(polygons[1]), 10)
    ELSE Frac(coveredCells(polygons) * cellSize * cellSize, 50 * 50)

\* ControlsManager.calculateObstaclesArea, in tenths of a square metre
calculateObstaclesArea(s) ==
    LET all == ObstaclePolygons(s)
    IN IF Len(all) = 0 THEN 0
       ELSE IF Len(all) = 1 THEN calculatePolygonArea(all[1])
       ELSE ToFixed1(calculateUnionArea(all))

\* Math.sqrt of a square number
Sqrt(n) == CHOOSE r \in 0..n : r * r = n

\* the sum of the lengths of the segments of path from waypoint i on
RECURSIVE SegmentsFrom(_, _)
SegmentsFrom(path, i) ==
    IF i >= Len(path) THEN 0
    ELSE LET dx == path[i + 1].x - path[i].x
             dy == path[i + 1].y - path[i].y
         IN Sqrt(dx * dx + dy * dy) + SegmentsFrom(path, i + 1)

\* ControlsManager.calculatePathLength of the path of s, in tenths of a metre
calculatePathLength(s) ==
    IF Len(s.plannedPath) < 2 THEN 0
    ELSE ToFixed1(Frac(SegmentsFrom(s.plannedPath, 1), 50))

\* ControlsManager.calculateEstimatedTime, in seconds: the length in metres
\* over 0.5 m/s, rounded
calculateEstimatedTime(pathLengthM) ==
    IF pathLengthM = 0 THEN 0 ELSE (2 * pathLengthM + 5) \div 10

\* the numbers updateStats writes to the page from the session s: path
\* length, coverage area and useful area in tenths, estimated time in seconds
Shown(s) ==
    LET boundaryArea == calculatePolygonArea(s.boundary)
        obstaclesArea == calculateObstaclesArea(s)
        pathLength == calculatePathLength(s)
    IN [pathLength |-> pathLength,
        coverageArea |-> boundaryArea,
        usefulArea |-> IF boundaryArea > obstaclesArea
                       THEN boundaryArea - obstaclesArea ELSE 0,
        estimatedTime |-> calculateEstimatedTime(pathLength)]

(***************************************************************************)
(* ControlsManager: the mock planner.                                      *)
(***************************************************************************)
\* the margin of the stripes inside the bounding box (part_001 685-688)
Margin == 20

\* the distance between two stripes (part_001 691)
stripeSpacing == 40

\* the while loop of generateMockPath
RECURSIVE Stripes(_, _, _, _, _)
Stripes(minX, maxX, currentY, maxY, goingRight) ==
    IF currentY <= maxY
    THEN (IF goingRight
          THEN <<Pt(minX, currentY), Pt(maxX, currentY)>>
          ELSE <<Pt(maxX, currentY), Pt(minX, currentY)>>)
         \o Stripes(minX, maxX, currentY + stripeSpacing, maxY, ~goingRight)
    ELSE <<>>

generateMockPath(bnd) ==
    IF Len(bnd) < 3 THEN <<>>
    ELSE LET xs == {bnd[i].x : i \in DOMAIN bnd}
             ys == {bnd[i].y : i \in DOMAIN bnd}
         IN Stripes(MinOf(xs) + Margin, MaxOf(xs) - Margin,
                    MinOf(ys) + Margin, MaxOf(ys) - Margin, TRUE)

(***************************************************************************)
(* ControlsManager: playback.                                              *)
(***************************************************************************)
\* stop that keeps the playback position
stopKeepIndex(s) ==
    updateRobotStatus(
        updateButtonStates(
            Render([s EXCEPT !.isRunning = FALSE, !.isPaused = FALSE,
                             !.robotPosition = Null])),
        Some("Stopped"), Null, Some(Zero), Some(0))

stop(s) ==
    updateRobotStatus(
        updateButtonStates(
            Render([s EXCEPT !.isRunning = FALSE, !.isPaused = FALSE,
                             !.currentIndex = 0, !.progress = Zero,
                             !.robotPosition = Null])),
        Some("Stopped"), Null, Some(Zero), Some(0))

\* the delay before the next tick without the floor of 50 ms
tickDelayNoFloor(speed) == 500 - speed * 45

\* Math.max(50, 500 - (this.currentSpeed * 45)), in milliseconds
tickDelay(speed) == MaxOf({50, 500 - speed * 45})

\* setTimeout(animate, delay): one more pending timeout of the closure over
\* path; the handler has asked for this delay
setTimeoutAnimate(s, path, delay) ==
    [s EXCEPT !.timers = @ (+) SetToBag({path}), !.delay = Some(delay)]

\* animate once the flags let it run: complete, or advance and reschedule
advanceOrComplete(s, path) ==
    IF s.currentIndex >= Len(path) - 1
    THEN [updateRobotStatus(stop(s), Some("Complete"), Some(path[Len(path)]),
                            Some(Hundred), Some(0))
             EXCEPT !.tick = "complete"]
    ELSE LET current == path[s.currentIndex + 1]
             next == path[s.currentIndex + 2]
             heading == Atan2(next.y - current.y, next.x - current.x)
             s1 == updateRobotPosition(s, [x |-> current.x, y |-> current.y,
                                           heading |-> heading])
             s2 == [s1 EXCEPT !.progress = Frac((s.currentIndex + 1) * 100, Len(path))]
             s3 == updateRobotStatus(s2, Some("Running"), Some(current),
                                     Some(s2.progress), Some(s.currentSpeed))
         IN setTimeoutAnimate([s3 EXCEPT !.currentIndex = @ + 1, !.tick = "advance"],
                              path, tickDelay(s.currentSpeed))

\* animate that does not look at the isRunning and isPaused flags
animateIgnoringFlags(s, path) == advanceOrComplete(s, path)

\* the closure animate of startSimulation, over the path it captured
animate(s, path) ==
    IF ~s.isRunning \/ s.isPaused THEN [s EXCEPT !.tick = "skip"]
    ELSE advanceOrComplete(s, path)

startSimulation(s) ==
    IF ~s.isRunning THEN s
    ELSE IF Len(s.plannedPath) = 0 THEN s
    ELSE LET s1 == IF ~s.isPaused /\ s.currentIndex = 0
                   THEN [s EXCEPT !.currentIndex = 0, !.progress = Zero]
                   ELSE s
         IN animate(s1, s.plannedPath)

\* run that does not look at the planned path
runWithoutPathCheck(s) ==
    updateRobotStatus(
        updateButtonStates(
            startSimulation([s EXCEPT !.isRunning = TRUE, !.isPaused = FALSE,
                                      !.currentIndex = 0, !.progress = Zero])),
        Some("Running"), Null, Some(Zero), Some(s.currentSpeed))

run(s) ==
    IF Len(s.plannedPath) = 0
    THEN [s EXCEPT !.alert = "Please generate a path first"]
    ELSE updateRobotStatus(
             updateButtonStates(
                 startSimulation([s EXCEPT !.isRunning = TRUE, !.isPaused = FALSE,
                                           !.currentIndex = 0, !.progress = Zero])),
             Some("Running"), Null, Some(Zero), Some(s.currentSpeed))

pause(s) ==
    updateRobotStatus(updateButtonStates([s EXCEPT !.isPaused = TRUE]),
                      Some("Paused"), Null, Null, Some(0))

resume(s) ==
    IF s.isRunning /\ s.isPaused
    THEN startSimulation(
             updateRobotStatus(updateButtonStates([s EXCEPT !.isPaused = FALSE]),
                               Some("Running"), Null, Null, Some(s.currentSpeed)))
    ELSE s

updateSpeed(s, value) ==
    LET s1 == [s EXCEPT !.currentSpeed = value]
    IN IF s1.isRunning /\ ~s1.isPaused
       THEN updateRobotStatus(s1, Null, Null, Null, Some(value))
       ELSE s1

(***************************************************************************)
(* ControlsManager: the commands.                                          *)
(***************************************************************************)
reset(s) ==
    updateRobotStatus(updateButtonStates(updateStats(canvasReset(stop(s)))),
                      Some("Idle"), Null, Some(Zero), Some(0))

startBoundary(s) ==
    updateButtonStates(IF s.mode = "boundary" THEN finishBoundary(s)
                       ELSE setMode(s, "boundary"))

addObstacle(s) ==
    updateButtonStates(IF s.mode = "obstacle" THEN finishObstacle(s)
                       ELSE setMode(s, "obstacle"))

addDynamicObstacle(s) ==
    updateButtonStates(IF s.mode = "obstacle-dynamic" THEN finishDynamicObstacle(s)
                       ELSE setMode(s, "obstacle-dynamic"))

\* generatePlan up to its await: the path is computed from the boundary of
\* this moment and the continuation is queued behind a one second timeout
generatePlan(s) ==
    IF Len(s.boundary) < 3
    THEN [s EXCEPT !.alert = "Please define a boundary first"]
    ELSE [s EXCEPT !.disabled.planBtn = TRUE,
                   !.plans = Append(@, generateMockPath(s.boundary))]

\* generatePlan after its await
generatePlanResume(s) ==
    updateButtonStates(
        updateStats([setPlannedPath(s, Head(s.plans)) EXCEPT !.plans = Tail(@)]))

\* the obstacles as updateObstacleList lists them: the static ones, then the
\* dynamic ones
allObstacles(s) ==
    [i \in 1..Len(s.obstacles) |-> [s.obstacles[i] EXCEPT !.type = "static"]]
        \o [i \in 1..Len(s.dynamicObstacles) |->
               [s.dynamicObstacles[i] EXCEPT !.type = "dynamic"]]

removeObstacle(s, obstacleId) == updateStats(canvasRemoveObstacle(s, obstacleId))

highlightObstacle(s, obstacleId) == setHighlightedObstacle(s, obstacleId)

unhighlightObstacle(s) == clearHighlightedObstacle(s)

keySpace(s) ==
    IF s.isRunning /\ ~s.isPaused THEN pause(s)
    ELSE IF s.isPaused THEN run(s)
    ELSE s

keyEscape(s) ==
    updateButtonStates(
        IF s.mode = "boundary"
        THEN (IF Len(s.boundary) >= 3 THEN finishBoundary(s)
              ELSE Render(setMode(s, "ready")))
        ELSE IF s.mode = "obstacle"
        THEN (IF Len(s.currentObstacle) >= 3 THEN finishObstacle(s)
              ELSE Render(setMode(s, "ready")))
        ELSE IF s.mode = "obstacle-dynamic"
        THEN (IF Len(s.currentObstacle) >= 3 THEN finishDynamicObstacle(s)
              ELSE Render(setMode(s, "ready")))
        ELSE Render(setMode(s, "ready")))

keyP(s) == IF Len(s.boundary) >= 3 THEN generatePlan(s) ELSE s

(***************************************************************************)
(* App.importData: a field that the snapshot lacks becomes [].             *)
(***************************************************************************)
Field(data, name) == IF name \in DOMAIN data THEN data[name] ELSE <<>>

\* importData that leaves a field the snapshot lacks as it was
importDataKeepMissing(s, data) ==
    LET Kept(name) == IF name \in DOMAIN data THEN data[name] ELSE s[name]
    IN updateStats(updateButtonStates(
           Render([s EXCEPT !.boundary = Kept("boundary"),
                            !.obstacles = Kept("obstacles"),
                            !.dynamicObstacles = Kept("dynamicObstacles"),
                            !.plannedPath = Kept("plannedPath")])))

importData(s, data) ==
    updateStats(updateButtonStates(
        Render([s EXCEPT !.boundary = Field(data, "boundary"),
                         !.obstacles = Field(data, "obstacles"),
                         !.dynamicObstacles = Field(data, "dynamicObstacles"),
                         !.plannedPath = Field(data, "plannedPath")])))

(***************************************************************************)
(* Inputs of importData: snapshots as exportData writes them, some with    *)
(* fields missing.  TwoPoints is a boundary exported while it was drawn.   *)
(***************************************************************************)
Triangle == <<Pt(0, 0), Pt(100, 0), Pt(100, 100)>>

TwoPoints == <<Pt(0, 0), Pt(100, 100)>>

TestObstacle == [id |-> <<"test_obstacle", 1>>, points |-> Triangle, type |-> "static"]

OnePointPath == <<Pt(20, 20)>>

ThreePointPath == <<Pt(20, 20), Pt(80, 20), Pt(80, 60)>>

ImportSnapshots ==
    {<<>>,
     [boundary |-> Triangle, plannedPath |-> OnePointPath],
     [boundary |-> TwoPoints],
     [obstacles |-> <<TestObstacle>>, plannedPath |-> ThreePointPath]}

\* polygons of imported sessions: boundaries drawn in either direction, one
\* of them not convex, and small obstacles that are apart, overlap, are not
\* convex or have two points only
Square == <<Pt(0, 0), Pt(100, 0), Pt(100, 100), Pt(0, 100)>>

SquareBack == <<Pt(0, 100), Pt(100, 100), Pt(100, 0), Pt(0, 0)>>

Arrow == <<Pt(0, 0), Pt(100, 0), Pt(100, 100), Pt(50, 50), Pt(0, 100)>>

GeomBoundaries == {<<>>, TwoPoints, Triangle, Square, SquareBack, Arrow}

Rect == <<Pt(0, 0), Pt(20, 0), Pt(20, 10), Pt(0, 10)>>

RectFar == <<Pt(30, 0), Pt(50, 0), Pt(50, 10), Pt(30, 10)>>

RectOver == <<Pt(10, 4), Pt(30, 4), Pt(30, 14), Pt(10, 14)>>

LShape == <<Pt(0, 0), Pt(12, 0), Pt(12, 4), Pt(4, 4), Pt(4, 12), Pt(0, 12)>>

Sliver == <<Pt(0, 0), Pt(20, 10)>>

GeomPolygons == {Rect, RectFar, RectOver, LShape, Sliver}

\* a fence: an obstacle 1 pixel wide and 130 pixels long
Fence == <<Pt(0, 0), Pt(1, 0), Pt(1, 130), Pt(0, 130)>>

\* the registry with the fence alone, and with a second obstacle next to it
FenceObstacles ==
    {<<[id |-> <<"static", 1>>, points |-> Fence, type |-> "static"]>>,
     <<[id |-> <<"static", 1>>, points |-> Fence, type |-> "static"],
       [id |-> <<"static", 2>>, points |-> LShape, type |-> "static"]>>}

\* the obstacle lists of at most n obstacles with these polygons
GeomObstacles(n, type) ==
    UNION {{[i \in 1..k |-> [id |-> <<type, i>>, points |-> ps[i], type |-> type]] :
                ps \in [1..k -> GeomPolygons]} : k \in 0..n}

\* sessions with a boundary alone, and sessions with obstacles in a square
GeomSnapshots ==
    {[boundary |-> b, obstacles |-> <<>>, dynamicObstacles |-> <<>>,
      plannedPath |-> <<>>] : b \in GeomBoundaries}
    \cup
    {[boundary |-> Square, obstacles |-> o, dynamicObstacles |-> d,
      plannedPath |-> <<>>] :
        o \in GeomObstacles(2, "static"), d \in GeomObstacles(1, "dynamic")}
    \cup
    {[boundary |-> Square, obstacles |-> o, dynamicObstacles |-> <<>>,
      plannedPath |-> <<>>] : o \in FenceObstacles}

TestDynamic == [id |-> <<"test_dynamic", 1>>, points |-> Triangle, type |-> "dynamic"]

\* the snapshot of a session with a boundary and an obstacle of each kind
TestSnapshot ==
    [boundary |-> Triangle, obstacles |-> <<TestObstacle>>,
     dynamicObstacles |-> <<TestDynamic>>, plannedPath |-> <<>>]

\* an id that no obstacle has
AbsentId == <<"obstacle", -1>>

(***************************************************************************)
(* The initial state: the constructors of CanvasManager (canvas.js 7-44)   *)
(* and ControlsManager (part_001 426-439), and App.setup.                  *)
(***************************************************************************)
InitState ==
    updateStats(updateButtonStates(Render(
        [boundary |-> <<>>, obstacles |-> <<>>, dynamicObstacles |-> <<>>,
         plannedPath |-> <<>>, robotPosition |-> Null, mode |-> "ready",
         currentObstacle |-> <<>>, highlightedObstacle |-> Null,
         scale |-> Frac(1, 1), panX |-> Zero, panY |-> Zero,
         isPanning |-> FALSE, lastPanPoint |-> Pt(0, 0),
         isRunning |-> FALSE, isPaused |-> FALSE, currentSpeed |-> 5,
         currentIndex |-> 0, progress |-> Zero,
         disabled |-> <<>>,
         status |-> [state |-> "Idle", position |-> Null, progress |-> 0, speed |-> 0],
         rendered |-> <<>>, stats |-> <<>>,
         timers |-> EmptyBag, plans |-> <<>>, now |-> 0,
         tick |-> "none", alert |-> "none", delay |-> Null])))

\* the program is in program state s
StartsIn(s) ==
    /\ boundary = s.boundary
    /\ obstacles = s.obstacles
    /\ dynamicObstacles = s.dynamicObstacles
    /\ plannedPath = s.plannedPath
    /\ robotPosition = s.robotPosition
    /\ mode = s.mode
    /\ currentObstacle = s.currentObstacle
    /\ highlightedObstacle = s.highlightedObstacle
    /\ scale = s.scale
    /\ panX = s.panX
    /\ panY = s.panY
    /\ isPanning = s.isPanning
    /\ lastPanPoint = s.lastPanPoint
    /\ isRunning = s.isRunning
    /\ isPaused = s.isPaused
    /\ currentSpeed = s.currentSpeed
    /\ currentIndex = s.currentIndex
    /\ progress = s.progress
    /\ disabled = s.disabled
    /\ status = s.status
    /\ rendered = s.rendered
    /\ stats = s.stats
    /\ timers = s.timers
    /\ plans = s.plans
    /\ now = s.now

Init ==
    /\ StartsIn(InitState)
    /\ last = [op |-> "init", tick |-> "none", alert |-> "none",
               delay |-> Null, pre |-> Pre,
               arg |-> Null, placed |-> <<>>, old |-> Null, issued |-> {},
               wheels |-> 0, left |-> -1]

\* the program states after k presses of '+', and after k presses of '-',
\* on the page as constructed
RECURSIVE zoomInTimes(_, _)
zoomInTimes(s, k) == IF k = 0 THEN s ELSE zoomInTimes(zoomIn(s), k - 1)

RECURSIVE zoomOutTimes(_, _)
zoomOutTimes(s, k) == IF k = 0 THEN s ELSE zoomOutTimes(zoomOut(s), k - 1)

ViewStarts ==
    {zoomInTimes(InitState, k) : k \in 0..MaxZoomRun}
        \cup {zoomOutTimes(InitState, k) : k \in 1..MaxZoomRun}

\* a session in which the operator has zoomed in or out some number of
\* times, and of which the next MaxViewSteps handler calls are followed
InitPan ==
    /\ \E s \in ViewStarts : StartsIn(s)
    /\ last = [op |-> "init", tick |-> "none", alert |-> "none",
               delay |-> Null, pre |-> Pre,
               arg |-> Null, placed |-> <<>>, old |-> Null, issued |-> {},
               wheels |-> 0, left |-> MaxViewSteps]

(***************************************************************************)
(* The handlers.  A Click is a click on a button, which the browser        *)
(* delivers only while the button is not disabled; a Key is a key press    *)
(* (handleKeyboard); a Call is a direct call of a public method of the     *)
(* controller, as a test harness or the console makes it.                  *)
(***************************************************************************)
ClickResetBtn == Commit("reset", reset(Cur))

KeyCtrlR == Commit("reset", reset(Cur))

ClickBoundaryBtn == ~disabled.boundaryBtn /\ Commit("startBoundary", startBoundary(Cur))

KeyB == Commit("startBoundary", startBoundary(Cur))

ClickAddObstacleBtn == ~disabled.addObstacleBtn /\ Commit("addObstacle", addObstacle(Cur))

KeyO == Commit("addObstacle", addObstacle(Cur))

ClickAddDynamicObstacleBtn ==
    ~disabled.addDynamicObstacleBtn /\ Commit("addDynamicObstacle", addDynamicObstacle(Cur))

KeyD == Commit("addDynamicObstacle", addDynamicObstacle(Cur))

ClickPlanBtn == ~disabled.planBtn /\ Commit("generatePlan", generatePlan(Cur))

KeyP == Commit("keyP", keyP(Cur))

CallGeneratePlan == Commit("generatePlan", generatePlan(Cur))

PlanTimer == plans # <<>> /\ Commit("planTimer", generatePlanResume(Cur))

ClickRunBtn == ~disabled.runBtn /\ Commit("run", run(Cur))

CallRun == Commit("run", run(Cur))

ClickPauseBtn == ~disabled.pauseBtn /\ Commit("pause", pause(Cur))

CallPause == Commit("pause", pause(Cur))

ClickResumeBtn == ~disabled.resumeBtn /\ Commit("resume", resume(Cur))

CallResume == Commit("resume", resume(Cur))

ClickStopBtn == ~disabled.stopBtn /\ Commit("stop", stop(Cur))

CallStop == Commit("stop", stop(Cur))

KeySpace == Commit("keySpace", keySpace(Cur))

KeyEscape == Commit("keyEscape", keyEscape(Cur))

SpeedInput ==
    \E value \in SpeedValues :
        CommitArg("updateSpeed", Some(value), updateSpeed(Cur, value))

\* updateSpeed is called with any integer
CallUpdateSpeed ==
    \E value \in Speeds :
        CommitArg("updateSpeed", Some(value), updateSpeed(Cur, value))

CanvasClick ==
    \E pos \in ClickPts(Len(last.placed)) :
        CommitArg("click", Some(pos), handleClick(Cur, pos))

CanvasRightClick == Commit("rightClick", handleRightClick(Cur))

\* a left click on the canvas with Ctrl held, in a view that is not zoomed
\* or panned: the browser calls the mousedown, the mouseup and the click
\* listeners of the canvas (canvas.js 74, 76, 60), in this order
CtrlClick ==
    \E pos \in ClickPts(Len(Drawn)) :
        CommitArg("ctrlClick", Some(pos),
                  handleClick(handleMouseUp(handleMouseDown(Cur, pos, 0, TRUE)), pos))

\* a pending animate timeout fires
AnimateTimer ==
    \E path \in BagToSet(timers) :
        CommitArg("timer", Some(path),
                  animate([Cur EXCEPT !.timers = @ (-) SetToBag({path})], path))

RemoveObstacle ==
    \E id \in ObstacleIds(Cur) \cup {AbsentId} :
        CommitArg("removeObstacle", Some(id), removeObstacle(Cur, id))

HighlightObstacle ==
    \E id \in ObstacleIds(Cur) \cup {AbsentId} :
        CommitArg("highlightObstacle", Some(id), highlightObstacle(Cur, id))

UnhighlightObstacle == Commit("unhighlightObstacle", unhighlightObstacle(Cur))

ImportData ==
    \E data \in ImportSnapshots :
        CommitArg("importData", Some(data), importData(Cur, data))

\* a session with some geometry is imported
ImportGeom ==
    \E data \in GeomSnapshots :
        CommitArg("importData", Some(data), importData(Cur, data))

\* the session that generateTestData builds is exported and imported
ImportTestData ==
    CommitArg("importData", Some(TestSnapshot), importData(Cur, TestSnapshot))

Wheel ==
    \E mouse \in WheelPts, deltaY \in {-100, 100} :
        CommitArg("wheel", Some(mouse), handleWheel(Cur, mouse, deltaY))

KeyPlus == Commit("zoomIn", zoomIn(Cur))

KeyMinus == Commit("zoomOut", zoomOut(Cur))

KeyCtrl0 == Commit("resetZoom", resetZoom(Cur))

MouseDown ==
    \E pos \in MousePts, button \in {0, 1}, ctrlKey \in BOOLEAN :
        CommitArg("mouseDown", Some(pos), handleMouseDown(Cur, pos, button, ctrlKey))

\* the canvas has two mousemove listeners (lines 61 and 75), so one move of
\* the mouse calls handleMouseMove twice
MouseMove ==
    \E pos \in MousePts :
        CommitArg("mouseMove", Some(pos),
                  handleMouseMove(handleMouseMove(Cur, pos), pos))

\* a wheel event with the pointer away from the centre
WheelAt ==
    \E mouse \in FocalPts, deltaY \in {-100, 100} :
        CommitArg("wheel", Some(mouse), handleWheel(Cur, mouse, deltaY))

\* a move of the mouse to another place
MouseDrag ==
    \E pos \in DragPts :
        CommitArg("mouseMove", Some(pos),
                  handleMouseMove(handleMouseMove(Cur, pos), pos))

MouseUp == Commit("mouseUp", handleMouseUp(Cur))

MouseLeave == Commit("mouseLeave", handleMouseLeave(Cur))

\* a millisecond passes
ClockTick == Commit("clock", [Cur EXCEPT !.now = @ + 1])

(***************************************************************************)
(* The environments.  SpecPlay is the playback controller with the planner *)
(* and the session import around it: the operator plans, runs, pauses,     *)
(* resumes, stops, resets and imports, and the timeouts fire.  SpecEdit is *)
(* the geometry editor with the session import: the operator draws,        *)
(* finishes, cancels, removes, resets and imports.  SpecDraw is the        *)
(* drawing state machine driven from the page alone, and SpecObs is the    *)
(* obstacle registry.                                                      *)
(***************************************************************************)
NextPlay ==
    \/ ClickResetBtn \/ KeyCtrlR
    \/ ClickPlanBtn \/ KeyP \/ CallGeneratePlan \/ PlanTimer
    \/ ClickRunBtn \/ CallRun
    \/ ClickPauseBtn \/ CallPause
    \/ ClickResumeBtn \/ CallResume
    \/ ClickStopBtn \/ CallStop
    \/ KeySpace
    \/ SpeedInput
    \/ AnimateTimer
    \/ ImportData

SpecPlay == Init /\ [][NextPlay]_vars

NextEdit ==
    \/ ClickResetBtn \/ KeyCtrlR
    \/ ClickBoundaryBtn \/ KeyB
    \/ ClickAddObstacleBtn \/ KeyO
    \/ ClickAddDynamicObstacleBtn \/ KeyD
    \/ KeyEscape
    \/ CanvasClick \/ CanvasRightClick
    \/ RemoveObstacle
    \/ ImportData

SpecEdit == Init /\ [][NextEdit]_vars

\* the drawing state machine driven from the page alone
NextDraw ==
    \/ ClickResetBtn \/ KeyCtrlR
    \/ ClickBoundaryBtn \/ KeyB
    \/ ClickAddObstacleBtn \/ KeyO
    \/ ClickAddDynamicObstacleBtn \/ KeyD
    \/ KeyEscape
    \/ CanvasClick \/ CanvasRightClick

SpecDraw == Init /\ [][NextDraw]_vars

\* the obstacle registry: obstacles are drawn, finished, cancelled, removed
\* and highlighted, the session is reset, and time passes
NextObs ==
    \/ ClickResetBtn
    \/ ClickAddObstacleBtn \/ ClickAddDynamicObstacleBtn
    \/ KeyEscape
    \/ CanvasClick \/ CanvasRightClick
    \/ RemoveObstacle \/ HighlightObstacle \/ UnhighlightObstacle
    \/ ClockTick

SpecObs == Init /\ [][NextObs]_vars

\* the obstacle registry filled from the editor and from an imported session
NextFill ==
    \/ ClickResetBtn
    \/ ClickAddObstacleBtn \/ KeyO
    \/ ClickAddDynamicObstacleBtn \/ KeyD
    \/ KeyEscape
    \/ CanvasClick \/ CanvasRightClick
    \/ RemoveObstacle
    \/ ImportTestData

SpecFill == Init /\ [][NextFill]_vars

\* the view: the operator zooms with the wheel and the keys, pans with the
\* mouse and resets
NextView ==
    \/ Wheel \/ KeyPlus \/ KeyMinus \/ KeyCtrl0
    \/ MouseDown \/ MouseMove \/ MouseUp \/ MouseLeave
    \/ ClickResetBtn

SpecView == Init /\ [][NextView]_vars

\* editing and playback from the page alone: the buttons that are enabled,
\* the keys, the canvas, and the timeouts
NextPage ==
    \/ ClickBoundaryBtn \/ KeyB
    \/ ClickAddObstacleBtn \/ KeyO
    \/ ClickAddDynamicObstacleBtn \/ KeyD
    \/ KeyEscape
    \/ CanvasClick \/ CanvasRightClick
    \/ ClickPlanBtn \/ KeyP \/ PlanTimer
    \/ ClickRunBtn \/ ClickPauseBtn \/ ClickResumeBtn \/ ClickStopBtn
    \/ KeySpace
    \/ AnimateTimer

SpecPage == Init /\ [][NextPage]_vars

\* drawing with the keys and the mouse, Ctrl held at every left click
NextCtrl ==
    \/ KeyB \/ KeyO \/ KeyD
    \/ KeyEscape
    \/ CanvasRightClick
    \/ CtrlClick

SpecCtrl == Init /\ [][NextCtrl]_vars

\* the playback of an imported path while the operator draws an obstacle
\* and turns the wheel
NextFrame ==
    \/ ImportData
    \/ ClickRunBtn \/ ClickPauseBtn \/ ClickResumeBtn \/ ClickStopBtn
    \/ AnimateTimer
    \/ KeyO \/ CanvasClick
    \/ Wheel

SpecFrame == Init /\ [][NextFrame]_vars

\* the playback of an imported path at any speed
NextTick ==
    \/ ImportData
    \/ CallRun \/ CallPause \/ CallResume \/ CallStop
    \/ CallUpdateSpeed
    \/ AnimateTimer

SpecTick == Init /\ [][NextTick]_vars

\* sessions with some geometry, for the geometry functions and the numbers
\* of the page
NextGeom == ImportGeom \/ RemoveObstacle \/ ClickResetBtn

SpecGeom == Init /\ [][NextGeom]_vars

\* the view from the states of ViewStarts on, with the pointer anywhere
NextPan ==
    \/ Wheel \/ WheelAt \/ KeyPlus \/ KeyMinus \/ KeyCtrl0
    \/ MouseDown \/ MouseMove \/ MouseDrag \/ MouseUp \/ MouseLeave
    \/ ClickResetBtn

SpecPan == InitPan /\ [][NextPan]_vars

(***************************************************************************)
(* Properties of the playback controller (SpecPlay).                       *)
(***************************************************************************)
\* C1: resuming a playback that is paused at index k, by resume() or by the
\* Space key, continues the advance from k: the animate call of the resume
\* advances index to k + 1, or completes the path, or leaves index at k;
\* index is never set back.
C1_ResumeKeepsPosition ==
    [][(isRunning /\ isPaused /\ last'.op \in {"resume", "keySpace"})
          => CASE last'.tick = "advance" -> currentIndex' = currentIndex + 1
               [] last'.tick = "complete" -> TRUE
               [] OTHER -> currentIndex' = currentIndex]_vars

\* C2: while playback is running (paused or not) index is an index of the
\* current planned path: 0 <= index <= path.length - 1.
C2_IndexInPath ==
    isRunning => (0 <= currentIndex /\ currentIndex <= Len(plannedPath) - 1)

\* C3: playback that is not running is not paused.
C3_NotRunningNotPaused == ~isRunning => ~isPaused

\* C4: stop(), called in any playback state, leaves running = false,
\* paused = false, index = 0, progress = 0 and no robot position.
C4_StopResets ==
    last.op = "stop"
        => /\ ~isRunning
           /\ ~isPaused
           /\ currentIndex = 0
           /\ progress = Zero
           /\ robotPosition = Null

\* stop() was called on a paused playback that had advanced
C4_Witness ==
    /\ last.op = "stop"
    /\ last.pre.isRunning
    /\ last.pre.isPaused
    /\ last.pre.currentIndex > 0
    /\ currentIndex = 0

\* C5: run() with an empty planned path raises the alert and changes nothing:
\* the playback state, the pending timeouts, the canvas and the page stay
\* as they were.
C5_RunEmptyPath ==
    [][(last'.op = "run" /\ plannedPath = <<>>)
          => /\ last'.alert = "Please generate a path first"
             /\ UNCHANGED <<canvasVars, simVars, pageVars, loopVars>>]_vars

\* run() was called with no planned path
C5_Witness ==
    /\ last.op = "run"
    /\ plannedPath = <<>>
    /\ last.alert = "Please generate a path first"
    /\ ~isRunning
    /\ timers = EmptyBag

\* C6: pause() while not running and resume() while not (running and paused)
\* leave the playback state unchanged.
C6_NoOpOutsidePrecondition ==
    [][((last'.op = "pause" /\ ~isRunning)
          \/ (last'.op = "resume" /\ ~(isRunning /\ isPaused)))
          => UNCHANGED simState]_vars

\* C7: a timeout that fires while playback is paused or not running changes
\* neither index nor progress nor the robot position, and schedules no
\* further timeout.
C7_TickObservesFlags ==
    [][(last'.op = "timer" /\ (isPaused \/ ~isRunning))
          => /\ UNCHANGED <<currentIndex, progress, robotPosition>>
             /\ BagCardinality(timers') = BagCardinality(timers) - 1]_vars

\* a timeout fired while playback was paused in the middle of the path
C7_Witness ==
    /\ last.op = "timer"
    /\ last.tick = "skip"
    /\ last.pre.isRunning
    /\ last.pre.isPaused
    /\ currentIndex > 0
    /\ robotPosition # Null

\* C8: the animate call that finds index >= n - 1 on a path of n >= 1
\* waypoints leaves playback stopped (running = false, paused = false,
\* index = 0, no robot position) with the status panel reporting Complete
\* at 100%, and schedules no further timeout.
C8_CompletionReported ==
    last.tick = "complete"
        => /\ ~isRunning
           /\ ~isPaused
           /\ currentIndex = 0
           /\ robotPosition = Null
           /\ status.state = "Complete"
           /\ status.progress = ToFixed1(Hundred)

(***************************************************************************)
(* Properties of the drawing state machine (SpecDraw).                     *)
(***************************************************************************)
\* C9: the mode is one of the four modes; in ready mode the obstacle buffer
\* is empty; and every handler that moves the editor into ready mode leaves
\* no unfinished boundary (1 or 2 points) behind.
C9_ReadyHasEmptyBuffer ==
    /\ mode \in Modes
    /\ mode = "ready" => currentObstacle = <<>>
    /\ (mode = "ready" /\ last.pre.mode # "ready") => Len(boundary) \notin {1, 2}

\* Escape was pressed in obstacle mode with 1 or 2 points in the buffer
C9_Witness ==
    /\ mode = "ready"
    /\ last.op = "keyEscape"
    /\ last.pre.mode = "obstacle"
    /\ last.pre.drawn \in {1, 2}

\* C10: outside boundary-drawing mode the boundary has 0 or at least 3
\* points.
C10_BoundaryNeverPartial == mode # "boundary" => Len(boundary) \notin {1, 2}

\* the committed boundary in an array b: a boundary has at least 3 points
CommittedBoundary(b) == IF Len(b) >= 3 THEN b ELSE <<>>

\* the step is an explicit finish command given in a drawing mode: the
\* toggle button or key of the mode, or a right click
FinishStep ==
    \/ last'.op = "rightClick" /\ mode # "ready"
    \/ last'.op = "startBoundary" /\ mode = "boundary"
    \/ last'.op = "addObstacle" /\ mode = "obstacle"
    \/ last'.op = "addDynamicObstacle" /\ mode = "obstacle-dynamic"

\* C11: a finish after exactly 2 placed points commits nothing: the
\* committed boundary is the one from before the drawing (or the drawing is
\* still open) and both obstacle lists keep their size; a finish after
\* exactly 3 placed points commits: in boundary mode the boundary is set, in
\* an obstacle mode exactly one obstacle is appended to the list of the mode.
C11_FinishThreshold ==
    [][FinishStep =>
         /\ Len(last.placed) = 2 =>
               /\ Len(obstacles') = Len(obstacles)
               /\ Len(dynamicObstacles') = Len(dynamicObstacles)
               /\ IF mode = "boundary"
                  THEN \/ mode' = "boundary" /\ boundary' = boundary
                       \/ boundary' = CommittedBoundary(last.old[1])
                  ELSE CommittedBoundary(boundary') = CommittedBoundary(boundary)
         /\ Len(last.placed) = 3 =>
               CASE mode = "boundary" ->
                      /\ mode' = "ready"
                      /\ Len(boundary') >= 3
                      /\ Len(obstacles') = Len(obstacles)
                      /\ Len(dynamicObstacles') = Len(dynamicObstacles)
                 [] mode = "obstacle" ->
                      /\ obstacles' = Append(obstacles, obstacles'[Len(obstacles')])
                      /\ dynamicObstacles' = dynamicObstacles
                 [] OTHER ->
                      /\ dynamicObstacles' =
                            Append(dynamicObstacles,
                                   dynamicObstacles'[Len(dynamicObstacles')])
                      /\ obstacles' = obstacles]_vars

\* C12: entering boundary mode while a boundary exists leaves that boundary
\* as it is, and the finish or cancel that ends the drawing leaves either
\* the points placed in this drawing (a successful finish: at least 3
\* placed points) or the old boundary (an unsuccessful finish, a cancel).
C12_RedrawReplaces ==
    [][/\ (mode # "boundary" /\ mode' = "boundary") => boundary' = boundary
       /\ (/\ mode = "boundary"
           /\ Len(last.old[1]) >= 3
           /\ mode' = "ready"
           /\ last'.op \in {"startBoundary", "rightClick", "keyEscape"})
             => boundary' = IF last'.op # "keyEscape" /\ Len(last.placed) >= 3
                            THEN last.placed
                            ELSE last.old[1]]_vars

\* C13: an explicit finish command given in a drawing mode ends in ready
\* mode; with fewer than 3 points in the buffer (0 included) nothing is
\* committed and the buffer is discarded.
C13_FinishEndsInReady ==
    [][FinishStep =>
         /\ mode' = "ready"
         /\ currentObstacle' = <<>>
         /\ Len(Drawn) < 3 =>
               /\ Len(obstacles') = Len(obstacles)
               /\ Len(dynamicObstacles') = Len(dynamicObstacles)
               /\ mode = "boundary" => boundary' = <<>>]_vars

\* C14: Escape in a drawing mode returns to ready mode and commits nothing,
\* however many points were placed: the obstacle lists stay as they are and
\* the committed boundary is the one from before the drawing.
C14_CancelNeverCommits ==
    [][(last'.op = "keyEscape" /\ mode # "ready") =>
         /\ mode' = "ready"
         /\ currentObstacle' = <<>>
         /\ obstacles' = obstacles
         /\ dynamicObstacles' = dynamicObstacles
         /\ boundary' = IF mode = "boundary"
                        THEN CommittedBoundary(last.old[1])
                        ELSE CommittedBoundary(boundary)]_vars

\* C15: a click in ready mode changes nothing; a click in a drawing mode
\* appends the clicked world point to the end of the array of that mode
\* (the boundary in boundary mode, the obstacle buffer in the obstacle
\* modes) and leaves the mode, the other array and the obstacle lists as
\* they were.
C15_PlacePoint ==
    [][last'.op = "click" =>
         IF mode = "ready"
         THEN UNCHANGED <<canvasVars, simVars, pageVars, loopVars>>
         ELSE /\ mode' = mode
              /\ obstacles' = obstacles
              /\ dynamicObstacles' = dynamicObstacles
              /\ IF mode = "boundary"
                 THEN /\ boundary' = Append(boundary, last'.arg[1])
                      /\ currentObstacle' = currentObstacle
                 ELSE /\ currentObstacle' = Append(currentObstacle, last'.arg[1])
                      /\ boundary' = boundary]_vars

\* a second point was clicked in obstacle mode
C15_Witness ==
    /\ last.op = "click"
    /\ mode = "obstacle"
    /\ Len(currentObstacle) = 2
    /\ currentObstacle[2] = last.arg[1]
    /\ currentObstacle[1] # currentObstacle[2]

(***************************************************************************)
(* Properties of the obstacle registry (SpecObs, SpecFill).                 *)
(***************************************************************************)
\* every obstacle of the static list has at least 3 points and type static,
\* every obstacle of the dynamic list at least 3 points and type dynamic
WellFormed(obs, dyn) ==
    /\ \A i \in DOMAIN obs : Len(obs[i].points) >= 3 /\ obs[i].type = "static"
    /\ \A i \in DOMAIN dyn : Len(dyn[i].points) >= 3 /\ dyn[i].type = "dynamic"

UniqueIds(seq) == \A i, j \in DOMAIN seq : i # j => seq[i].id # seq[j].id

\* C17: after every step no two obstacles of the registry share an id, and
\* the id of an obstacle that a finish appends is one that no obstacle of
\* the session has had before.
C17_IdsUnique ==
    [][/\ UniqueIds(obstacles' \o dynamicObstacles')
       /\ (last'.op # "importData" /\ Len(obstacles') > Len(obstacles))
             => obstacles'[Len(obstacles')].id \notin last.issued
       /\ (last'.op # "importData" /\ Len(dynamicObstacles') > Len(dynamicObstacles))
             => dynamicObstacles'[Len(dynamicObstacles')].id \notin last.issued]_vars

\* the obstacles of the sequence whose id is not id, in their order
Without(seq, id) == LET Other(obs) == obs.id # id IN SelectSeq(seq, Other)

C19_HighlightDesignates ==
    \/ highlightedObstacle = Null
    \/ LET all == obstacles \o dynamicObstacles
       IN Cardinality({i \in DOMAIN all : all[i].id = highlightedObstacle}) = 1

(***************************************************************************)
(* Properties of the view (SpecView).                                      *)
(***************************************************************************)
\* C20: minScale <= scale <= maxScale.
C20_ScaleWithinLimits == FLe(minScale, scale) /\ FLe(scale, maxScale)

\* a zoom call found the scale at a limit, or was cut off at it
C20_Witness ==
    /\ last.op \in {"wheel", "zoomIn", "zoomOut"}
    /\ scale \in {minScale, maxScale}

(***************************************************************************)
(* Properties of zoom and pan from any zoom level (SpecPan).               *)
(***************************************************************************)
\* the handlers that zoom, and the canvas point each of them zooms about
ZoomOps == {"wheel", "zoomIn", "zoomOut"}

\* C21: every zoom leaves the world point under its focal point where it
\* was: (f - pan) / scale is the same before and after handleWheel (f the
\* pointer), zoomIn and zoomOut (f the canvas centre), also when the new
\* scale is cut off at minScale or maxScale.
C21_ZoomKeepsFocalPoint ==
    [][last'.op \in ZoomOps =>
         LET f == IF last'.op = "wheel" THEN last'.arg[1] ELSE Centre
         IN getMousePosition(Cur, f)
                = getMousePosition([scale |-> scale', panX |-> panX', panY |-> panY'], f)]_vars

\* a wheel event with the pointer off the centre and off the origin was cut
\* off at a limit and changed the scale and the pan
C21_Witness ==
    /\ last.op = "wheel"
    /\ last.arg[1] = Pt(4, 3)
    /\ scale \in {minScale, maxScale}
    /\ last.pre.scale # scale
    /\ last.pre.panX # panX
    /\ last.pre.panY # panY

\* C22: a move of the mouse during a pan adds the difference between the
\* pointer and the last pan point, in canvas pixels, to the pan whatever the
\* scale is, and leaves the scale, the mode, the boundary, the buffer, the
\* obstacle lists and the path alone.
C22_PanAddsRawDelta ==
    [][last'.op = "mouseMove" /\ isPanning =>
         LET pos == last'.arg[1] IN
         /\ panX' = FAdd(panX, Frac(pos.x - lastPanPoint.x, 1))
         /\ panY' = FAdd(panY, Frac(pos.y - lastPanPoint.y, 1))
         /\ UNCHANGED <<scale, mode, boundary, currentObstacle, obstacles,
                        dynamicObstacles, plannedPath>>]_vars

\* a drag moved the pan at a scale other than 1
C22_Witness ==
    /\ last.op = "mouseMove"
    /\ isPanning
    /\ scale # Frac(1, 1)
    /\ last.pre.panX # panX
    /\ last.pre.panY # panY

(***************************************************************************)
(* Properties of reset.                                                    *)
(***************************************************************************)
\* the data and the playback of the session are as on the page as constructed
CleanData(s) ==
    /\ s.boundary = <<>> /\ s.obstacles = <<>> /\ s.dynamicObstacles = <<>>
    /\ s.plannedPath = <<>> /\ s.currentObstacle = <<>> /\ s.mode = "ready"
    /\ ~s.isRunning /\ ~s.isPaused /\ s.currentIndex = 0 /\ s.progress = Zero
    /\ s.robotPosition = Null

\* C23: reset leaves the session as it was constructed: no boundary, no
\* obstacles, no path, no buffer, ready mode, playback idle at index 0 and
\* progress 0, no robot position, no highlight, scale 1 and pan (0, 0).
C23_ResetRestoresInitial ==
    [][last'.op = "reset" =>
         /\ CleanData([boundary |-> boundary', obstacles |-> obstacles',
                       dynamicObstacles |-> dynamicObstacles',
                       plannedPath |-> plannedPath',
                       currentObstacle |-> currentObstacle', mode |-> mode',
                       isRunning |-> isRunning', isPaused |-> isPaused',
                       currentIndex |-> currentIndex', progress |-> progress',
                       robotPosition |-> robotPosition'])
         /\ highlightedObstacle' = Null
         /\ scale' = Frac(1, 1)
         /\ panX' = Zero /\ panY' = Zero]_vars

(***************************************************************************)
(* Properties of the geometry functions (SpecGeom).                        *)
(***************************************************************************)
\* the polygons of the session: the boundary and the obstacles
Polygons == {boundary} \cup {ObstaclePolygons(Cur)[i] : i \in DOMAIN ObstaclePolygons(Cur)}

\* the vertex order of P rotated by k places, and reversed
Rotate(P, k) == [i \in 1..Len(P) |-> P[((i + k - 1) % Len(P)) + 1]]

Reverse(P) == [i \in 1..Len(P) |-> P[Len(P) + 1 - i]]

\* C24: the area of a polygon of 3 or more vertices is the same for every
\* cyclic rotation of the vertex order, and the reversed vertex order gives
\* the area with the opposite sign.
C24_AreaRotationReversal ==
    \A P \in Polygons :
        Len(P) >= 3 =>
            /\ \A k \in 1..Len(P) : calculatePolygonArea(Rotate(P, k)) = calculatePolygonArea(P)
            /\ calculatePolygonArea(Reverse(P)) = -calculatePolygonArea(P)

\* C24 as amended: the area is the same for every cyclic rotation of the
\* vertex order and for the reversed vertex order.
C24_AreaOrderFree ==
    \A P \in Polygons :
        Len(P) >= 3 =>
            /\ \A k \in 1..Len(P) : calculatePolygonArea(Rotate(P, k)) = calculatePolygonArea(P)
            /\ calculatePolygonArea(Reverse(P)) = calculatePolygonArea(P)

\* a session with a boundary that is not convex and has an area
C24_Witness ==
    /\ last.op = "importData"
    /\ boundary = Arrow
    /\ calculatePolygonArea(boundary) = 30

\* the points at which the polygons are probed
ProbePts ==
    {Pt(px, py) : px \in {-1, 0, 1, 5, 10, 15, 19, 20, 21, 29, 30, 31, 50, 99, 100, 101},
                  py \in {-1, 0, 1, 4, 5, 9, 10, 11, 14, 50, 99, 100, 101}}

\* the corners of the bounding box of P
Box(P) ==
    [minX |-> MinOf({P[i].x : i \in DOMAIN P}), maxX |-> MaxOf({P[i].x : i \in DOMAIN P}),
     minY |-> MinOf({P[i].y : i \in DOMAIN P}), maxY |-> MaxOf({P[i].y : i \in DOMAIN P})]

\* P is a rectangle with sides along the axes, its corners in order
IsRectangle(P) ==
    /\ Len(P) = 4
    /\ {P[i] : i \in DOMAIN P}
           = {Pt(px, py) : px \in {Box(P).minX, Box(P).maxX}, py \in {Box(P).minY, Box(P).maxY}}
    /\ Box(P).minX < Box(P).maxX /\ Box(P).minY < Box(P).maxY
    /\ \A i \in DOMAIN P : LET j == (i % 4) + 1 IN P[i].x = P[j].x \/ P[i].y = P[j].y

\* the edges of P, the one from the last vertex to the first included, that
\* the ray from point to the right crosses
CrossedEdges(point, P) ==
    {i \in DOMAIN P : Crosses(point, P[i], P[(i % Len(P)) + 1])}

\* C25: a polygon of fewer than 3 points contains no point; otherwise a
\* point is inside exactly if its ray crosses an odd number of the edges,
\* the closing edge included, so that a rectangle with sides along the axes
\* contains every point strictly inside it and no point strictly outside.
C25_PointInPolygon ==
    \A P \in Polygons, point \in ProbePts :
        /\ Len(P) < 3 => ~isPointInPolygon(point, P)
        /\ Len(P) >= 3 =>
               isPointInPolygon(point, P) = (Cardinality(CrossedEdges(point, P)) % 2 = 1)
        /\ IsRectangle(P) =>
               /\ Box(P).minX < point.x /\ point.x < Box(P).maxX
                    /\ Box(P).minY < point.y /\ point.y < Box(P).maxY
                    => isPointInPolygon(point, P)
               /\ \/ point.x < Box(P).minX \/ point.x > Box(P).maxX
                  \/ point.y < Box(P).minY \/ point.y > Box(P).maxY
                    => ~isPointInPolygon(point, P)

\* a session with a rectangle that contains a probe point and leaves
\* another one out, and with an obstacle of two points
C25_Witness ==
    /\ last.op = "importData"
    /\ Rect \in Polygons /\ Sliver \in Polygons
    /\ isPointInPolygon(Pt(5, 5), Rect)
    /\ ~isPointInPolygon(Pt(21, 5), Rect)

\* C26: the union area of no polygons is 0, and the union area of one
\* polygon is the area calculatePolygonArea gives for it, whatever the grid
\* would count.
C26_UnionOfFewPolygons ==
    LET all == ObstaclePolygons(Cur) IN
    /\ Len(all) = 0 => calculateUnionArea(all) = Zero /\ calculateObstaclesArea(Cur) = 0
    /\ Len(all) = 1 =>
           /\ calculateUnionArea(all) = Frac(calculatePolygonArea(all[1]), 10)
           /\ calculateObstaclesArea(Cur) = calculatePolygonArea(all[1])

\* a session with one obstacle, whose area is not what the grid counts
C26_Witness ==
    /\ last.op \in {"importData", "removeObstacle"}
    /\ Len(ObstaclePolygons(Cur)) = 1
    /\ calculateUnionArea(ObstaclePolygons(Cur))
           # Frac(coveredCells(ObstaclePolygons(Cur)) * cellSize * cellSize, 50 * 50)

\* the bounding boxes of P and Q do not meet
Apart(P, Q) ==
    \/ Box(P).maxX < Box(Q).minX \/ Box(Q).maxX < Box(P).minX
    \/ Box(P).maxY < Box(Q).minY \/ Box(Q).maxY < Box(P).minY

\* C27: with two or more polygons the count of covered cells has each cell
\* of the grid over the joint bounding box once, exactly if its centre is
\* inside some polygon: it is the size of the union of the cells the single
\* polygons cover on that grid; twice the same polygon counts as one copy
\* of it, and two polygons that are apart count as the sum of the two.
C27_UnionCountsCellsOnce ==
    LET all == ObstaclePolygons(Cur)
        g == Grid(all)
        Single(k) == CoveredOn(g, <<all[k]>>)
    IN Len(all) >= 2 =>
        /\ coveredCells(all) = Cardinality(UNION {Single(k) : k \in DOMAIN all})
        /\ coveredCells(all) <= Cardinality(g.cells)
        /\ calculateUnionArea(all) = Frac(coveredCells(all) * cellSize * cellSize, 50 * 50)
        /\ Len(all) = 2 /\ all[1] = all[2] =>
               coveredCells(all) = Cardinality(Single(1))
        /\ Len(all) = 2 /\ Len(all[1]) >= 3 /\ Len(all[2]) >= 3 /\ Apart(all[1], all[2]) =>
               coveredCells(all) = Cardinality(Single(1)) + Cardinality(Single(2))

\* a session with the same rectangle as a static and as a dynamic obstacle
C27_Witness ==
    /\ last.op = "importData"
    /\ ObstaclePolygons(Cur) = <<Rect, Rect>>
    /\ Len(dynamicObstacles) = 1
    /\ coveredCells(ObstaclePolygons(Cur)) = 50

(***************************************************************************)
(* Properties of the numbers of the page.                                  *)
(***************************************************************************)
\* C28: while there is no boundary, path length, coverage area, useful area
\* and estimated time on the page are all 0; while the path is empty, path
\* length and estimated time are 0 and the two areas are the ones of the
\* boundary and the obstacles of the session.
C28_StatsEdgeCases ==
    /\ boundary = <<>> =>
           Shown(stats) = [pathLength |-> 0, coverageArea |-> 0,
                           usefulArea |-> 0, estimatedTime |-> 0]
    /\ plannedPath = <<>> =>
           /\ Shown(stats).pathLength = 0
           /\ Shown(stats).estimatedTime = 0
           /\ Shown(stats).coverageArea = Shown(Cur).coverageArea
           /\ Shown(stats).usefulArea = Shown(Cur).usefulArea

(***************************************************************************)
(* Properties of rendering.                                                *)
(***************************************************************************)
\* the part of what render() draws that is session state: boundary, obstacle
\* lists, the buffer in progress, path, robot position, view and highlight
Picture(v) ==
    [boundary |-> v.boundary, obstacles |-> v.obstacles,
     dynamicObstacles |-> v.dynamicObstacles,
     currentObstacle |-> v.currentObstacle,
     plannedPath |-> v.plannedPath, robotPosition |-> v.robotPosition,
     highlightedObstacle |-> v.highlightedObstacle,
     scale |-> v.scale, panX |-> v.panX, panY |-> v.panY]

\* C29: after every command the last rendered picture shows the visible
\* state as it is now: boundary, obstacle lists, buffer in progress, path,
\* robot position, view and highlight, also after a mode switch that
\* discards a non-empty buffer.
C29_RenderedIsCurrent == Picture(rendered) = Picture(Visible(Cur))

(***************************************************************************)
(* Properties of importData.                                               *)
(***************************************************************************)
SnapshotFields == {"boundary", "obstacles", "dynamicObstacles", "plannedPath"}

\* C30: importData of a snapshot that lacks some of the fields boundary,
\* obstacles, dynamicObstacles, plannedPath leaves each missing field empty
\* and each present field as the snapshot has it, raises no alert, and the
\* picture and the numbers of the page are those of the imported session.
C30_ImportDefaultsMissing ==
    [][last'.op = "importData" =>
          LET data == last'.arg[1]
              after == Cur'
          IN /\ \A name \in SnapshotFields :
                    /\ name \in DOMAIN data => after[name] = data[name]
                    /\ name \notin DOMAIN data => after[name] = <<>>
             /\ last'.alert = "none"
             /\ rendered' = Visible(after)
             /\ stats' = updateStats(after).stats]_vars

C30_Witness ==
    /\ last.op = "importData"
    /\ DOMAIN last.arg[1] = {"boundary"}
    /\ last.pre.isRunning
    /\ boundary = TwoPoints
    /\ plannedPath = <<>>

(***************************************************************************)
(* Properties of the advance step.                                         *)
(***************************************************************************)
\* the index an animate call of the handler that ended finds: run starts
\* from 0, resume and a timeout go on from the index of the controller
TickIndex(l) == IF l.op \in {"timer", "resume"} THEN l.pre.currentIndex ELSE 0

\* what an advancing tick at index i of path p emits
Emitted(p, i) ==
    Some([x |-> p[i + 1].x, y |-> p[i + 1].y,
          heading |-> Atan2(p[i + 2].y - p[i + 1].y, p[i + 2].x - p[i + 1].x)])

\* C31: an advancing tick at index i < path.length - 1 of the planned path
\* emits path[i] with the heading of the segment to path[i+1], sets progress
\* to 100 * (i + 1) / path.length and the index to i + 1; progress is within
\* [0, 100] in every state.
C31_AdvanceEmitsInOrder ==
    [][/\ (last'.tick = "advance" /\ TickIndex(last') < Len(plannedPath) - 1)
            => /\ robotPosition' = Emitted(plannedPath, TickIndex(last'))
               /\ progress' = Frac(100 * (TickIndex(last') + 1), Len(plannedPath))
               /\ currentIndex' = TickIndex(last') + 1
       /\ FLe(Zero, progress') /\ FLe(progress', Hundred)]_vars

\* C32: the delay a tick asks for before the next tick is
\* max(50, 500 - 45 * speed) for the speed set at that tick; it is at least
\* 50 ms, and no larger speed gives a longer delay.
C32_DelayFromSpeed ==
    [][last'.delay # Null =>
          /\ last'.delay[1] = (IF 500 - 45 * currentSpeed' > 50
                               THEN 500 - 45 * currentSpeed' ELSE 50)
          /\ last'.delay[1] >= 50
          /\ \A faster \in Speeds :
                 faster >= currentSpeed' => tickDelay(faster) <= last'.delay[1]]_vars

\* a timeout fired at a speed set after the run began, so large that the
\* floor applies
C32_Witness ==
    /\ last.op = "timer"
    /\ last.delay = Some(50)
    /\ currentSpeed = MaxSpeed
    /\ currentIndex = 2

(***************************************************************************)
(* Properties of the timeouts.                                             *)
(***************************************************************************)
\* C33: while playback is running and not paused, at most one animate
\* timeout is pending, so that the index advances at most once per delay.
C33_OneLiveTimer ==
    (isRunning /\ ~isPaused) => BagCardinality(timers) <= 1

(***************************************************************************)
(* Properties of the planner.                                              *)
(***************************************************************************)
\* C34: whenever the planned path is not empty, the boundary has at least
\* three points.
C34_PathNeedsBoundary == plannedPath # <<>> => Len(boundary) >= 3

(***************************************************************************)
(* Properties of the lock-out of editing during playback.                  *)
(***************************************************************************)
\* C35: while playback is running or paused the mode is ready, and no
\* command of the page that leaves playback running or paused changes the
\* mode, the boundary, the obstacle lists or the planned path.
C35_EditingLockedOut ==
    [][/\ isRunning' => mode' = "ready"
       /\ (isRunning /\ isRunning')
             => UNCHANGED <<mode, boundary, obstacles, dynamicObstacles,
                            plannedPath>>]_vars

(***************************************************************************)
(* Properties of the obstacles area.                                       *)
(***************************************************************************)
\* the registry of b holds the obstacles of a and one more
OneMore(a, b) ==
    \/ /\ b.dynamicObstacles = a.dynamicObstacles
       /\ Len(b.obstacles) = Len(a.obstacles) + 1
       /\ SubSeq(b.obstacles, 1, Len(a.obstacles)) = a.obstacles
    \/ /\ b.obstacles = a.obstacles
       /\ Len(b.dynamicObstacles) = Len(a.dynamicObstacles) + 1
       /\ SubSeq(b.dynamicObstacles, 1, Len(a.dynamicObstacles)) = a.dynamicObstacles

\* C36: adding an obstacle polygon to the registry never makes the obstacles
\* area smaller, also when the registry goes from one obstacle to two.
C36_ObstaclesAreaMonotone ==
    [][OneMore(stats, stats')
          => calculateObstaclesArea(stats) <= calculateObstaclesArea(stats')]_vars

(***************************************************************************)
(* Properties of the frame of a tick.                                      *)
(***************************************************************************)
\* C37: an animate call from a timeout, whether it advances, completes or
\* returns at once, leaves the planned path, the boundary, both obstacle
\* lists, the buffer in progress, the mode, the scale and the pan unchanged.
C37_TickFrame ==
    [][last'.op = "timer"
          => UNCHANGED <<plannedPath, boundary, obstacles, dynamicObstacles,
                         currentObstacle, mode, scale, panX, panY>>]_vars


\* a timeout advanced the robot while an obstacle was being drawn in a
\* zoomed view
C37_Witness ==
    /\ last.op = "timer"
    /\ last.tick = "advance"
    /\ mode = "obstacle"
    /\ Len(currentObstacle) = 2
    /\ scale # Frac(1, 1)
    /\ currentIndex = 2

(***************************************************************************)
(* Properties of the pointer.                                              *)
(***************************************************************************)
\* C38: a left click with Ctrl held appends no point to the boundary and
\* none to the obstacle in progress, in any mode.
C38_CtrlClickPlacesNothing ==
    [][last'.op = "ctrlClick" => UNCHANGED <<boundary, currentObstacle>>]_vars

====
